---- MODULE Spec2Model ----
(***************************************************************************)
(* A model of two parts of dagster:                                        *)
(*                                                                         *)
(*  - _ExtSubprocess (dagster/_core/ext/subprocess.py): the ext client     *)
(*    that runs a subprocess inside the scope of a context injector and a  *)
(*    message reader kept on an ExitStack.                                 *)
(*  - fetch_asset_checks.py (dagster-graphql): the resolution of the       *)
(*    status of an asset check execution and the decision whether the      *)
(*    execution is for the latest materialization of its asset.            *)
(*                                                                         *)
(* Spec       : calls of _ExtSubprocess.run, one step per statement.       *)
(* SpecChecks : the asset check queries applied to the stores.             *)
(***************************************************************************)
EXTENDS Integers, Sequences, FiniteSets, TLC

VARIABLES
    client,     \* the _ExtSubprocess object: self.env, self.cwd
    baseEnv,    \* what self.get_base_env() returns
    dirs,       \* the temporary directories that exist on disk
    calls,      \* the frame of each call of run()
    runs,             \* the run storage of the instance: run id -> run
    executions,       \* the asset check executions of the check, newest first
    materialization,  \* the last materialization record of the asset
    query             \* the last call made into fetch_asset_checks.py and its outcome

extVars == <<client, baseEnv, dirs, calls>>

checkVars == <<runs, executions, materialization, query>>

vars == <<client, baseEnv, dirs, calls, runs, executions, materialization, query>>

(***************************************************************************)
(* Bounds                                                                  *)
(***************************************************************************)
NumCalls == 2
NumDirs == 2
MaxExitCode == 2
MaxSignal == 1
MaxTimestamp == 2
MaxStorageId == 2
MaxLimit == 2

Calls == 1..NumCalls
DirNames == 1..NumDirs
\* Popen.returncode: 0, a positive exit status, or -N when signal N killed the child
ExitCodes == (0 - MaxSignal)..MaxExitCode

(***************************************************************************)
(* Optional values: None is the empty tuple, a value x is <<x>>.           *)
(***************************************************************************)
None == <<>>
Some(x) == <<x>>
IsNone(o) == Len(o) = 0
Get(o) == o[1]

(***************************************************************************)
(* Environments: a dict is a function from the names it defines.           *)
(***************************************************************************)
ContextVar == "DAGSTER_EXT_CONTEXT"
MessagesVar == "DAGSTER_EXT_MESSAGES"
UserVar == "USER_VAR"
EnvNames == {ContextVar, MessagesVar, UserVar}

\* the dicts of one layer: any subset of the names, each value tagged by its layer
EnvDicts(tag) == UNION {[S -> {<<tag, 0, "">>}] : S \in SUBSET EnvNames}

\* {**a, **b}
DictMerge(a, b) ==
    [n \in (DOMAIN a) \cup (DOMAIN b) |-> IF n \in DOMAIN b THEN b[n] ELSE a[n]]

\* x or {}
OrEmpty(o) == IF IsNone(o) THEN <<>> ELSE Get(o)

\* io_params_as_env_vars(context_injector_params, message_reader_params)
io_params_as_env_vars(context_injector_params, message_reader_params) ==
    [n \in {ContextVar, MessagesVar} |->
        IF n = ContextVar
        THEN <<"transport", context_injector_params[1], context_injector_params[2]>>
        ELSE <<"transport", message_reader_params[1], message_reader_params[2]>>]

\* the env argument of Popen, subprocess.py lines 62-66, with the operands swapped
PopenEnvSwapped(base_env, env, self_env, io_env) ==
    DictMerge(DictMerge(base_env, DictMerge(OrEmpty(Some(self_env)), OrEmpty(env))), io_env)

\* the env argument of Popen, subprocess.py lines 62-66
PopenEnv(base_env, env, self_env, io_env) ==
    DictMerge(DictMerge(base_env, DictMerge(OrEmpty(env), OrEmpty(Some(self_env)))), io_env)

\* cwd or self.cwd
PopenCwd(cwd, self_cwd) == IF cwd # "None" THEN cwd ELSE self_cwd

(***************************************************************************)
(* The stores read by fetch_asset_checks.py.                               *)
(***************************************************************************)
RunIds == {"run_a", "run_b"}
Timestamps == 1..MaxTimestamp
StorageIds == 1..MaxStorageId

\* DagsterRunStatus: one status of a run under way and the three final ones
DagsterRunStatus == {"STARTED", "SUCCESS", "FAILURE", "CANCELED"}

\* DagsterRun.is_finished
is_finished(run) == run.status \in {"SUCCESS", "FAILURE", "CANCELED"}

\* a stored run: DagsterRun.status and RunRecord.create_timestamp
Runs == [status : DagsterRunStatus, create_timestamp : Timestamps]

\* the last materialization of the asset: its storage id and the run that made it
Materializations == [storage_id : StorageIds, run_id : RunIds]

\* AssetCheckExecutionRecord: a PLANNED record has no evaluation event; the
\* evaluation of a SUCCEEDED or FAILED one may name the materialization it targeted.
\* UNKNOWN stands for a stored status that is none of the three, which only
\* the else arm of line 86 expects.
ExecutionRecords ==
    {[run_id |-> r, status |-> st, evaluation_event |-> None] :
        r \in RunIds, st \in {"PLANNED", "UNKNOWN"}}
    \cup
    {[run_id |-> r, status |-> st,
      evaluation_event |-> Some([target_materialization_data |-> t])] :
        r \in RunIds, st \in {"SUCCEEDED", "FAILED"},
        t \in {None} \cup {Some(i) : i \in StorageIds}}

\* a check is planned once in a run: the records of one check are of different runs
ExecutionLists ==
    {l \in UNION {[1..n -> ExecutionRecords] : n \in 0..Cardinality(RunIds)} :
        \A i, j \in DOMAIN l : i # j => l[i].run_id # l[j].run_id}

NoQuery ==
    [op |-> "none", index |-> 0, resolved_status |-> "", raised |-> "",
     message |-> "", value |-> <<>>, reads |-> <<>>, stale |-> FALSE, before |-> <<>>]

NoChecks ==
    /\ runs = [r \in RunIds |-> None]
    /\ executions = <<>>
    /\ materialization = None
    /\ query = NoQuery

(***************************************************************************)
(* The frame of one call of run().  pc is the statement the call is at.    *)
(***************************************************************************)
_CONTEXT_INJECTOR_FILENAME == "context"
_MESSAGE_READER_FILENAME == "messages"

NoParams == <<0, "">>

NewFrame(pc0) ==
    [pc |-> pc0,
     context_injector |-> "None",        \* "None", "custom" or "file"
     message_reader |-> "None",
     env |-> None,
     cwd |-> "None",
     tempdir |-> 0,                      \* the TemporaryDirectory of the call, 0: none
     stack |-> <<>>,                     \* the ExitStack, last entered last
     context_injector_params |-> NoParams,
     message_reader_params |-> NoParams,
     io_env |-> <<>>,                    \* what _setup_io yielded
     process |-> None,                   \* the Popen object: what the child was given
     returncode |-> None,
     exc |-> None,                       \* the exception in flight
     events |-> <<>>]                    \* what the call did, in order

Event(c, kind, what) == Append(calls[c].events, <<kind, what>>)

InitClient ==
    /\ client \in [env : EnvDicts("client"), cwd : {"None", "/client"}]
    /\ baseEnv \in EnvDicts("base")
    /\ dirs = {}

\* one call of run() in isolation; the stores of the asset checks stay empty
Init ==
    /\ InitClient
    /\ calls = [c \in Calls |-> NewFrame(IF c = 1 THEN "idle" ELSE "not_called")]
    /\ NoChecks

\* run(command, context=..., context_injector=..., message_reader=..., env=..., cwd=...)
\* line 57: the call is entered and the orchestration context is built
RunWith(c, ci, mr, e, w) ==
    /\ calls[c].pc = "idle"
    /\ calls' = [calls EXCEPT ![c].pc = "tempdir",
                              ![c].context_injector = ci,
                              ![c].message_reader = mr,
                              ![c].env = e,
                              ![c].cwd = w]
    /\ UNCHANGED <<client, baseEnv, dirs, checkVars>>

Run(c) ==
    \E ci \in {"None", "custom"}, mr \in {"None", "custom"},
       e \in {None} \cup {Some(d) : d \in EnvDicts("caller")}, w \in {"None", "/call"} :
       RunWith(c, ci, mr, e, w)

\* run(command, context=...): a call given no injector, reader, env or cwd
RunDefault(c) == RunWith(c, "None", "None", None, "None")

\* _setup_io lines 83-90 with a directory of one fixed name for
\* tempfile.TemporaryDirectory()
SetupTempdirShared(c) ==
    /\ calls[c].pc = "tempdir"
    /\ IF calls[c].context_injector = "None" \/ calls[c].message_reader = "None"
       THEN /\ dirs' = dirs \cup {1}
            /\ calls' = [calls EXCEPT
                  ![c].pc = "inject_context",
                  ![c].tempdir = 1,
                  ![c].stack = Append(@, "tempdir"),
                  ![c].events = Event(c, "acquire", "tempdir"),
                  ![c].context_injector = IF @ = "None" THEN "file" ELSE @,
                  ![c].message_reader = IF @ = "None" THEN "file" ELSE @]
       ELSE /\ calls' = [calls EXCEPT ![c].pc = "inject_context"]
            /\ UNCHANGED dirs
    /\ UNCHANGED <<client, baseEnv, checkVars>>

\* _setup_io lines 83-90: the temporary directory and the default file transports
SetupTempdir(c) ==
    /\ calls[c].pc = "tempdir"
    /\ IF calls[c].context_injector = "None" \/ calls[c].message_reader = "None"
       THEN \E d \in DirNames \ dirs :
              /\ dirs' = dirs \cup {d}
              /\ calls' = [calls EXCEPT
                    ![c].pc = "inject_context",
                    ![c].tempdir = d,
                    ![c].stack = Append(@, "tempdir"),
                    ![c].events = Event(c, "acquire", "tempdir"),
                    ![c].context_injector = IF @ = "None" THEN "file" ELSE @,
                    ![c].message_reader = IF @ = "None" THEN "file" ELSE @]
       ELSE /\ calls' = [calls EXCEPT ![c].pc = "inject_context"]
            /\ UNCHANGED dirs
    /\ UNCHANGED <<client, baseEnv, checkVars>>

\* what the injector or the reader hands back when entered: the default file
\* transports name a file of the temporary directory (lines 85-90)
TransportParams(c, kind, filename) ==
    IF kind = "file" THEN <<calls[c].tempdir, filename>> ELSE <<0, "custom">>

\* lines 91-93: stack.enter_context(context_injector.inject_context(...)) succeeds
InjectContext(c) ==
    /\ calls[c].pc = "inject_context"
    /\ calls' = [calls EXCEPT
          ![c].pc = "read_messages",
          ![c].stack = Append(@, "context_injector"),
          ![c].events = Event(c, "acquire", "context_injector"),
          ![c].context_injector_params =
              TransportParams(c, calls[c].context_injector, _CONTEXT_INJECTOR_FILENAME)]
    /\ UNCHANGED <<client, baseEnv, dirs, checkVars>>

\* lines 91-93: inject_context raises; nothing is pushed and the with block of
\* line 82 is left with the exception
InjectContextRaises(c) ==
    /\ calls[c].pc = "inject_context"
    /\ calls' = [calls EXCEPT
          ![c].pc = "unwind",
          ![c].exc = Some([type |-> "SetupError", returncode |-> 0])]
    /\ UNCHANGED <<client, baseEnv, dirs, checkVars>>

\* lines 94-96: stack.enter_context(message_reader.read_messages(...)) succeeds
ReadMessages(c) ==
    /\ calls[c].pc = "read_messages"
    /\ calls' = [calls EXCEPT
          ![c].pc = "popen",
          ![c].stack = Append(@, "message_reader"),
          ![c].events = Event(c, "acquire", "message_reader"),
          ![c].message_reader_params =
              TransportParams(c, calls[c].message_reader, _MESSAGE_READER_FILENAME)]
    /\ UNCHANGED <<client, baseEnv, dirs, checkVars>>

\* lines 94-96: read_messages raises
ReadMessagesRaises(c) ==
    /\ calls[c].pc = "read_messages"
    /\ calls' = [calls EXCEPT
          ![c].pc = "unwind",
          ![c].exc = Some([type |-> "SetupError", returncode |-> 0])]
    /\ UNCHANGED <<client, baseEnv, dirs, checkVars>>

\* lines 97 and 58-67: _setup_io yields io_env and the child is spawned
Popen(c) ==
    /\ calls[c].pc = "popen"
    /\ LET io_env == io_params_as_env_vars(calls[c].context_injector_params,
                                           calls[c].message_reader_params)
       IN calls' = [calls EXCEPT
            ![c].pc = "wait",
            ![c].io_env = io_env,
            ![c].process = Some([env |-> PopenEnv(baseEnv, calls[c].env, client.env, io_env),
                                 cwd |-> PopenCwd(calls[c].cwd, client.cwd)]),
            ![c].events = Event(c, "spawn", "process")]
    /\ UNCHANGED <<client, baseEnv, dirs, checkVars>>

\* line 59: Popen raises (the command cannot be executed); no child exists
PopenRaises(c) ==
    /\ calls[c].pc = "popen"
    /\ calls' = [calls EXCEPT
          ![c].pc = "unwind",
          ![c].exc = Some([type |-> "OSError", returncode |-> 0])]
    /\ UNCHANGED <<client, baseEnv, dirs, checkVars>>

\* line 68 with process.poll() for process.wait(): the call goes on while the
\* child runs
ProcessPoll(c) ==
    /\ calls[c].pc = "wait"
    /\ calls' = [calls EXCEPT ![c].pc = "unwind"]
    /\ UNCHANGED <<client, baseEnv, dirs, checkVars>>

\* line 68: process.wait() returns once the child has exited
ProcessWait(c) ==
    /\ calls[c].pc = "wait"
    /\ \E code \in ExitCodes :
          calls' = [calls EXCEPT
            ![c].pc = "check_returncode",
            ![c].returncode = Some(code),
            ![c].events = Event(c, "exit", "process")]
    /\ UNCHANGED <<client, baseEnv, dirs, checkVars>>

\* lines 70-73 with the test written returncode > 0
CheckReturncodePositive(c) ==
    /\ calls[c].pc = "check_returncode"
    /\ calls' = [calls EXCEPT
          ![c].pc = "unwind",
          ![c].exc = IF Get(calls[c].returncode) > 0
                     THEN Some([type |-> "DagsterExternalExecutionError",
                                returncode |-> Get(calls[c].returncode)])
                     ELSE None]
    /\ UNCHANGED <<client, baseEnv, dirs, checkVars>>

\* lines 70-73: a non-zero return code raises DagsterExternalExecutionError
CheckReturncode(c) ==
    /\ calls[c].pc = "check_returncode"
    /\ calls' = [calls EXCEPT
          ![c].pc = "unwind",
          ![c].exc = IF Get(calls[c].returncode) # 0
                     THEN Some([type |-> "DagsterExternalExecutionError",
                                returncode |-> Get(calls[c].returncode)])
                     ELSE None]
    /\ UNCHANGED <<client, baseEnv, dirs, checkVars>>

\* releasing one resource: the events of the call, and the directory removed
Release(c, what) ==
    /\ dirs' = IF what = "tempdir" THEN dirs \ {calls[c].tempdir} ELSE dirs
    /\ UNCHANGED <<client, baseEnv, checkVars>>

\* an unwinding that runs the exit callbacks only when no exception is in flight
ExitStackPopOnSuccessOnly(c) ==
    /\ calls[c].pc = "unwind"
    /\ calls[c].stack # <<>>
    /\ LET top == calls[c].stack[Len(calls[c].stack)]
       IN IF IsNone(calls[c].exc)
          THEN /\ calls' = [calls EXCEPT
                     ![c].stack = SubSeq(@, 1, Len(@) - 1),
                     ![c].events = Event(c, "release", top)]
               /\ Release(c, top)
          ELSE /\ calls' = [calls EXCEPT ![c].stack = SubSeq(@, 1, Len(@) - 1)]
               /\ UNCHANGED <<client, baseEnv, dirs, checkVars>>

\* an unwinding that exits the oldest context first
ExitStackPopOldestFirst(c) ==
    /\ calls[c].pc = "unwind"
    /\ calls[c].stack # <<>>
    /\ LET top == calls[c].stack[1]
       IN /\ calls' = [calls EXCEPT
                ![c].stack = Tail(@),
                ![c].events = Event(c, "release", top)]
          /\ Release(c, top)

\* line 82, ExitStack.__exit__: the context entered last is exited first, on a
\* normal exit and on an exception alike
ExitStackPop(c) ==
    /\ calls[c].pc = "unwind"
    /\ calls[c].stack # <<>>
    /\ LET top == calls[c].stack[Len(calls[c].stack)]
       IN /\ calls' = [calls EXCEPT
                ![c].stack = SubSeq(@, 1, Len(@) - 1),
                ![c].events = Event(c, "release", top)]
          /\ Release(c, top)

\* the with blocks of lines 82 and 58 are left: run() returns None, or the
\* exception in flight reaches the caller
Leave(c) ==
    /\ calls[c].pc = "unwind"
    /\ calls[c].stack = <<>>
    /\ calls' = [calls EXCEPT ![c].pc = IF IsNone(calls[c].exc) THEN "returned" ELSE "raised"]
    /\ UNCHANGED <<client, baseEnv, dirs, checkVars>>

Next ==
    \E c \in Calls :
    \/ Run(c)
    \/ SetupTempdir(c)
    \/ InjectContext(c)
    \/ InjectContextRaises(c)
    \/ ReadMessages(c)
    \/ ReadMessagesRaises(c)
    \/ Popen(c)
    \/ PopenRaises(c)
    \/ ProcessWait(c)
    \/ CheckReturncode(c)
    \/ ExitStackPop(c)
    \/ Leave(c)

Spec == Init /\ [][Next]_vars

\* calls of run() on one client at the same time, each with the default
\* transports
InitConcurrent ==
    /\ client = [env |-> <<>>, cwd |-> "None"]
    /\ baseEnv = <<>>
    /\ dirs = {}
    /\ calls = [c \in Calls |-> NewFrame("idle")]
    /\ NoChecks

NextConcurrent ==
    \E c \in Calls :
    \/ RunDefault(c)
    \/ SetupTempdir(c)
    \/ InjectContext(c)
    \/ InjectContextRaises(c)
    \/ ReadMessages(c)
    \/ ReadMessagesRaises(c)
    \/ Popen(c)
    \/ PopenRaises(c)
    \/ ProcessWait(c)
    \/ CheckReturncode(c)
    \/ ExitStackPop(c)
    \/ Leave(c)

SpecConcurrent == InitConcurrent /\ [][NextConcurrent]_vars

(***************************************************************************)
(* fetch_asset_checks.py.  A function returns the outcome of its call: the *)
(* value returned or the error raised, and the reads it made of the        *)
(* instance, in order, each with whether it found a record.                *)
(***************************************************************************)
Read(call, key, found) == [call |-> call, key |-> key, found |-> found]

Returned(v, reads) == [raised |-> "", message |-> "", value |-> <<v>>, reads |-> reads]

\* check.not_none on None
Raised(error, reads) == [raised |-> error, message |-> "", value |-> <<>>, reads |-> reads]

\* check.failed(message)
Failed(message, reads) ==
    [raised |-> "CheckError", message |-> message, value |-> <<>>, reads |-> reads]

\* instance.event_log_storage.get_asset_check_executions(asset_key, check_name,
\* limit, cursor): the newest records first, those older than the cursor, at
\* most limit of them.  The id of a record is its rank by creation.
get_asset_check_executions(limit, cursor) ==
    LET id(i) == Len(executions) + 1 - i
        IsOlder(i) == IsNone(cursor) \/ id(i) < Get(cursor)
        first == IF \E i \in DOMAIN executions : IsOlder(i)
                 THEN CHOOSE i \in DOMAIN executions :
                        IsOlder(i) /\ \A j \in DOMAIN executions : IsOlder(j) => i <= j
                 ELSE Len(executions) + 1
        last == IF first + limit - 1 < Len(executions) THEN first + limit - 1
                ELSE Len(executions)
    IN SubSeq(executions, first, last)

\* _get_asset_check_execution_status with the run fetched before the stored
\* status is looked at
StatusFetchingRunFirst(execution) ==
    LET run == runs[execution.run_id]
        reads == <<Read("get_run_by_id", execution.run_id, ~IsNone(run))>>
    IN IF IsNone(run) THEN Raised("CheckError", reads)
       ELSE IF execution.status = "SUCCEEDED" THEN Returned("SUCCEEDED", reads)
       ELSE IF execution.status = "FAILED" THEN Returned("FAILED", reads)
       ELSE IF execution.status = "PLANNED"
       THEN IF is_finished(Get(run))
            THEN IF Get(run).status = "FAILURE"
                 THEN Returned("EXECUTION_FAILED", reads)
                 ELSE Returned("SKIPPED", reads)
            ELSE Returned("IN_PROGRESS", reads)
       ELSE Raised("CheckError", reads)

\* _get_asset_check_execution_status with SUCCESS as the only finished status
\* that is not a failure
StatusSkippedOnSuccessOnly(execution) ==
    IF execution.status = "SUCCEEDED" THEN Returned("SUCCEEDED", <<>>)
    ELSE IF execution.status = "FAILED" THEN Returned("FAILED", <<>>)
    ELSE IF execution.status = "PLANNED"
    THEN LET run == runs[execution.run_id]
             reads == <<Read("get_run_by_id", execution.run_id, ~IsNone(run))>>
         IN IF IsNone(run) THEN Raised("CheckError", reads)
            ELSE IF Get(run).status = "FAILURE" THEN Returned("EXECUTION_FAILED", reads)
            ELSE IF Get(run).status = "SUCCESS" THEN Returned("SKIPPED", reads)
            ELSE Returned("IN_PROGRESS", reads)
    ELSE Raised("CheckError", <<>>)

\* _get_asset_check_execution_status with the last elif written as else
StatusUnknownAsPlanned(execution) ==
    IF execution.status = "SUCCEEDED" THEN Returned("SUCCEEDED", <<>>)
    ELSE IF execution.status = "FAILED" THEN Returned("FAILED", <<>>)
    ELSE LET run == runs[execution.run_id]
             reads == <<Read("get_run_by_id", execution.run_id, ~IsNone(run))>>
         IN IF IsNone(run) THEN Raised("CheckError", reads)
            ELSE IF is_finished(Get(run))
                 THEN IF Get(run).status = "FAILURE"
                      THEN Returned("EXECUTION_FAILED", reads)
                      ELSE Returned("SKIPPED", reads)
                 ELSE Returned("IN_PROGRESS", reads)

\* _get_asset_check_execution_status with the stored status returned when it
\* is not one of the three
StatusUnknownPassedOn(execution) ==
    IF execution.status = "SUCCEEDED" THEN Returned("SUCCEEDED", <<>>)
    ELSE IF execution.status = "FAILED" THEN Returned("FAILED", <<>>)
    ELSE IF execution.status = "PLANNED"
    THEN LET run == runs[execution.run_id]
             reads == <<Read("get_run_by_id", execution.run_id, ~IsNone(run))>>
         IN IF IsNone(run) THEN Raised("CheckError", reads)
            ELSE IF is_finished(Get(run))
                 THEN IF Get(run).status = "FAILURE"
                      THEN Returned("EXECUTION_FAILED", reads)
                      ELSE Returned("SKIPPED", reads)
                 ELSE Returned("IN_PROGRESS", reads)
    ELSE Returned(execution.status, <<>>)

\* _get_asset_check_execution_status with the run looked at before the stored
\* status: a run that failed gives EXECUTION_FAILED whatever the record says
StatusRunFailureFirst(execution) ==
    LET run == runs[execution.run_id]
        reads == <<Read("get_run_by_id", execution.run_id, ~IsNone(run))>>
    IN IF ~IsNone(run) /\ Get(run).status = "FAILURE"
       THEN Returned("EXECUTION_FAILED", reads)
       ELSE IF execution.status = "SUCCEEDED" THEN Returned("SUCCEEDED", <<>>)
       ELSE IF execution.status = "FAILED" THEN Returned("FAILED", <<>>)
       ELSE IF execution.status = "PLANNED"
       THEN IF IsNone(run) THEN Raised("CheckError", reads)
            ELSE IF is_finished(Get(run)) THEN Returned("SKIPPED", reads)
            ELSE Returned("IN_PROGRESS", reads)
       ELSE Failed("Unexpected status", <<>>)

\* _get_asset_check_execution_status(instance, execution), lines 63-87;
\* check.not_none (line 76) and check.failed (line 87) raise CheckError
_get_asset_check_execution_status(execution) ==
    LET record_status == execution.status
    IN IF record_status = "SUCCEEDED" THEN Returned("SUCCEEDED", <<>>)
       ELSE IF record_status = "FAILED" THEN Returned("FAILED", <<>>)
       ELSE IF record_status = "PLANNED"
       THEN LET run == runs[execution.run_id]
                reads == <<Read("get_run_by_id", execution.run_id, ~IsNone(run))>>
            IN IF IsNone(run) THEN Raised("CheckError", reads)
               ELSE IF is_finished(Get(run))
                    THEN IF Get(run).status = "FAILURE"
                         THEN Returned("EXECUTION_FAILED", reads)
                         ELSE Returned("SKIPPED", reads)
                    ELSE Returned("IN_PROGRESS", reads)
       ELSE Failed("Unexpected status", <<>>)

\* lines 125-142 with a target at or after the latest materialization accepted
TargetsEvaluatedAtLeast(execution, latest_materialization, reads) ==
    IF IsNone(execution.evaluation_event) THEN Raised("CheckError", reads)
    ELSE LET evaluation == Get(execution.evaluation_event)
         IN IF IsNone(evaluation.target_materialization_data)
            THEN Returned(FALSE, reads)
            ELSE Returned(Get(evaluation.target_materialization_data)
                            >= latest_materialization.storage_id, reads)

\* lines 125-142: the check was evaluated; its evaluation names its target
TargetsEvaluated(execution, latest_materialization, reads) ==
    IF IsNone(execution.evaluation_event) THEN Raised("CheckError", reads)
    ELSE LET evaluation == Get(execution.evaluation_event)
         IN IF IsNone(evaluation.target_materialization_data)
            THEN Returned(FALSE, reads)
            ELSE Returned(Get(evaluation.target_materialization_data)
                            = latest_materialization.storage_id, reads)

\* lines 159-164 with a run launched at the same time accepted
LaunchedAfterOrWith(execution_run_record, latest_materialization_run_record) ==
    /\ ~IsNone(latest_materialization_run_record)
    /\ ~IsNone(execution_run_record)
    /\ Get(execution_run_record).create_timestamp
         >= Get(latest_materialization_run_record).create_timestamp

\* lines 159-164 with a missing run record taken as no reason to hide the check
LaunchedAfterOrUnknown(execution_run_record, latest_materialization_run_record) ==
    \/ IsNone(latest_materialization_run_record)
    \/ IsNone(execution_run_record)
    \/ Get(execution_run_record).create_timestamp
         > Get(latest_materialization_run_record).create_timestamp

\* lines 159-164: both run records are there and the run of the check was
\* created after the run of the materialization
LaunchedAfter(execution_run_record, latest_materialization_run_record) ==
    /\ ~IsNone(latest_materialization_run_record)
    /\ ~IsNone(execution_run_record)
    /\ Get(execution_run_record).create_timestamp
         > Get(latest_materialization_run_record).create_timestamp

\* lines 155-164: the two run records are fetched and compared
CompareRuns(execution, latest_materialization_run_id, reads) ==
    LET latest_materialization_run_record == runs[latest_materialization_run_id]
        execution_run_record == runs[execution.run_id]
    IN Returned(LaunchedAfter(execution_run_record, latest_materialization_run_record),
                reads \o <<Read("get_run_record_by_id", latest_materialization_run_id,
                                ~IsNone(latest_materialization_run_record)),
                           Read("get_run_record_by_id", execution.run_id,
                                ~IsNone(execution_run_record))>>)

\* lines 145-164 without the test of lines 150-152
TargetsNotEvaluatedByTimeOnly(execution, latest_materialization, reads) ==
    CompareRuns(execution, latest_materialization.run_id, reads)

\* lines 145-164: the evaluation did not complete
TargetsNotEvaluated(execution, latest_materialization, reads) ==
    LET latest_materialization_run_id == latest_materialization.run_id
    IN IF latest_materialization_run_id = execution.run_id
       THEN Returned(TRUE, reads)
       ELSE CompareRuns(execution, latest_materialization_run_id, reads)

\* _execution_targets_latest_materialization without lines 114-116: a check in
\* progress is compared like one whose evaluation did not complete
TargetsInProgressCompared(execution, resolved_status) ==
    LET latest_materialization == materialization
        reads == <<Read("get_asset_records", "asset", ~IsNone(latest_materialization))>>
    IN IF IsNone(latest_materialization) THEN Returned(TRUE, reads)
       ELSE IF resolved_status \in {"SUCCEEDED", "FAILED"}
            THEN TargetsEvaluated(execution, Get(latest_materialization), reads)
       ELSE IF resolved_status \in {"EXECUTION_FAILED", "SKIPPED", "IN_PROGRESS"}
            THEN TargetsNotEvaluated(execution, Get(latest_materialization), reads)
       ELSE Failed("Unexpected check status", reads)

\* _execution_targets_latest_materialization with the evaluation looked at
\* before the test of lines 121-123: without a materialization an evaluated
\* check has nothing its target can equal
TargetsEvaluationFirst(execution, resolved_status) ==
    IF resolved_status = "IN_PROGRESS" THEN Returned(TRUE, <<>>)
    ELSE LET latest_materialization == materialization
             reads == <<Read("get_asset_records", "asset", ~IsNone(latest_materialization))>>
         IN IF resolved_status \in {"SUCCEEDED", "FAILED"}
            THEN IF IsNone(latest_materialization) THEN Returned(FALSE, reads)
                 ELSE TargetsEvaluated(execution, Get(latest_materialization), reads)
            ELSE IF IsNone(latest_materialization) THEN Returned(TRUE, reads)
            ELSE IF resolved_status \in {"EXECUTION_FAILED", "SKIPPED"}
                 THEN TargetsNotEvaluated(execution, Get(latest_materialization), reads)
            ELSE Failed("Unexpected check status", reads)

\* _execution_targets_latest_materialization(instance, external_asset_check,
\* execution, resolved_status), lines 108-167
_execution_targets_latest_materialization(execution, resolved_status) ==
    IF resolved_status = "IN_PROGRESS" THEN Returned(TRUE, <<>>)
    ELSE LET latest_materialization == materialization
             reads == <<Read("get_asset_records", "asset", ~IsNone(latest_materialization))>>
         IN IF IsNone(latest_materialization) THEN Returned(TRUE, reads)
            ELSE IF resolved_status \in {"SUCCEEDED", "FAILED"}
                 THEN TargetsEvaluated(execution, Get(latest_materialization), reads)
            ELSE IF resolved_status \in {"EXECUTION_FAILED", "SKIPPED"}
                 THEN TargetsNotEvaluated(execution, Get(latest_materialization), reads)
            ELSE Failed("Unexpected check status", reads)

\* the cursor strings a caller may hand to fetch_executions, and int(cursor)
CursorStrings == {"", "2", "x"}

IsDecimal(cursor) == cursor \in {"0", "1", "2"}

int(cursor) == IF cursor = "0" THEN 0 ELSE IF cursor = "1" THEN 1 ELSE 2

\* lines 100-103: the statuses of the executions, resolved one after the
\* other; the first resolution that raises ends the loop
RECURSIVE ResolveAll(_, _, _, _)
ResolveAll(found, i, res, reads) ==
    IF i > Len(found) THEN Returned(res, reads)
    ELSE LET resolved_status == _get_asset_check_execution_status(found[i])
         IN IF resolved_status.raised # ""
            THEN [resolved_status EXCEPT !.reads = reads \o resolved_status.reads]
            ELSE ResolveAll(found, i + 1,
                            Append(res, [execution |-> found[i],
                                         resolved_status |-> resolved_status.value[1]]),
                            reads \o resolved_status.reads)

\* fetch_executions(instance, asset_check, limit, cursor), lines 90-105; the
\* value is the list of GrapheneAssetCheckExecution
fetch_executions(limit, cursor) ==
    IF ~IsNone(cursor) /\ Get(cursor) # "" /\ ~IsDecimal(Get(cursor))
    THEN Raised("ValueError", <<>>)
    ELSE LET found == get_asset_check_executions(
                          limit,
                          IF ~IsNone(cursor) /\ Get(cursor) # ""
                          THEN Some(int(Get(cursor))) ELSE None)
         IN ResolveAll(found, 1, <<>>, <<>>)

\* fetch_execution_for_latest_materialization looking through all the
\* executions for the newest one that targets the latest materialization
FetchNewestSurfaced ==
    LET found == get_asset_check_executions(Len(executions), None)
        Shown(i) ==
            LET status == _get_asset_check_execution_status(found[i])
            IN /\ status.raised = ""
               /\ LET targets == _execution_targets_latest_materialization(
                                     found[i], status.value[1])
                  IN targets.raised = "" /\ targets.value[1]
    IN IF \E i \in DOMAIN found : Shown(i)
       THEN LET i == CHOOSE i \in DOMAIN found :
                       Shown(i) /\ \A j \in DOMAIN found : Shown(j) => i <= j
            IN Returned(Some([execution |-> found[i],
                              resolved_status |->
                                  _get_asset_check_execution_status(found[i]).value[1]]),
                        <<>>)
       ELSE Returned(None, <<>>)

\* fetch_execution_for_latest_materialization(instance, external_asset_check),
\* lines 170-194; the value is the GrapheneAssetCheckExecution or None
fetch_execution_for_latest_materialization ==
    LET found == get_asset_check_executions(1, None)
    IN IF found = <<>> THEN Returned(None, <<>>)
       ELSE LET execution == found[1]
                status == _get_asset_check_execution_status(execution)
            IN IF status.raised # "" THEN status
               ELSE LET resolved_status == status.value[1]
                        targets == _execution_targets_latest_materialization(
                                       execution, resolved_status)
                        reads == status.reads \o targets.reads
                    IN IF targets.raised # "" THEN [targets EXCEPT !.reads = reads]
                       ELSE IF targets.value[1]
                            THEN Returned(Some([execution |-> execution,
                                                resolved_status |-> resolved_status]),
                                          reads)
                            ELSE Returned(None, reads)

\* the statuses _get_asset_check_execution_status can have returned for a
\* record as it is stored now, whatever the run storage held at that time
StatusesOf(execution) ==
    IF execution.status = "PLANNED" THEN {"IN_PROGRESS", "EXECUTION_FAILED", "SKIPPED"}
    ELSE IF execution.status \in {"SUCCEEDED", "FAILED"} THEN {execution.status}
    ELSE {}

\* the call just made and its outcome; for a status resolved, before is the
\* status the call before it returned when that call resolved the same record;
\* stale is set when a store changes after the call
Answer(op, index, resolved_status, outcome) ==
    [op |-> op, index |-> index, resolved_status |-> resolved_status,
     raised |-> outcome.raised, message |-> outcome.message,
     value |-> outcome.value, reads |-> outcome.reads,
     stale |-> FALSE,
     before |-> IF /\ op = "get_status"
                   /\ query.op = op
                   /\ query.index = index
                   /\ query.raised = ""
                THEN query.value ELSE <<>>]

\* any contents of the three stores
InitChecks ==
    /\ client = [env |-> <<>>, cwd |-> "None"]
    /\ baseEnv = <<>>
    /\ dirs = {}
    /\ calls = [c \in Calls |-> NewFrame("not_called")]
    /\ runs \in [RunIds -> {None} \cup {Some(r) : r \in Runs}]
    /\ executions \in ExecutionLists
    /\ materialization \in {None} \cup {Some(m) : m \in Materializations}
    /\ query = NoQuery

\* a call of _get_asset_check_execution_status that answers from the call
\* before it when that call resolved the same record
GetStatusMemo(i) ==
    /\ query' = IF query.op = "get_status" /\ query.index = i /\ query.raised = ""
                THEN [query EXCEPT !.stale = FALSE, !.before = query.value]
                ELSE Answer("get_status", i, "",
                            _get_asset_check_execution_status(executions[i]))
    /\ UNCHANGED <<runs, executions, materialization, extVars>>

\* a call of _get_asset_check_execution_status that stores the status it
\* resolved for a run that ended without an evaluation
GetStatusWritingBack(i) ==
    LET status == _get_asset_check_execution_status(executions[i])
    IN /\ query' = Answer("get_status", i, "", status)
       /\ executions' =
             IF status.raised = "" /\ status.value[1] = "EXECUTION_FAILED"
             THEN [executions EXCEPT ![i].status = "FAILED",
                                     ![i].evaluation_event =
                                         Some([target_materialization_data |-> None])]
             ELSE executions
       /\ UNCHANGED <<runs, materialization, extVars>>

\* a call of _get_asset_check_execution_status on one of the records
GetStatus(i) ==
    /\ query' = Answer("get_status", i, "", _get_asset_check_execution_status(executions[i]))
    /\ UNCHANGED <<runs, executions, materialization, extVars>>

\* a call of _execution_targets_latest_materialization on one of the records,
\* with a status resolved for it before
TargetsLatest(i, resolved_status) ==
    /\ query' = Answer("targets_latest", i, resolved_status,
                       _execution_targets_latest_materialization(executions[i],
                                                                 resolved_status))
    /\ UNCHANGED <<runs, executions, materialization, extVars>>

\* a call of fetch_execution_for_latest_materialization
FetchLatest ==
    /\ query' = Answer("fetch_latest", 0, "", fetch_execution_for_latest_materialization)
    /\ UNCHANGED <<runs, executions, materialization, extVars>>

NextChecks ==
    \/ \E i \in DOMAIN executions : GetStatus(i)
    \/ \E i \in DOMAIN executions : \E s \in StatusesOf(executions[i]) : TargetsLatest(i, s)
    \/ FetchLatest

SpecChecks == InitChecks /\ [][NextChecks]_vars

\* a call of fetch_executions
FetchExecutions(limit, cursor) ==
    /\ query' = Answer("fetch_executions", 0, "", fetch_executions(limit, cursor))
    /\ UNCHANGED <<runs, executions, materialization, extVars>>

\* what is kept of the call made last once a store changes: the status it
\* resolved, if it resolved one
Stale ==
    IF query.op = "get_status" /\ query.raised = ""
    THEN [NoQuery EXCEPT !.op = "get_status", !.index = query.index,
                         !.value = query.value, !.stale = TRUE]
    ELSE [NoQuery EXCEPT !.stale = TRUE]

\* the run storage records the end of a run: a run that is not finished
\* gets a terminal status, and keeps it
FinishRun(r, status) ==
    /\ ~IsNone(runs[r])
    /\ ~is_finished(Get(runs[r]))
    /\ runs' = [runs EXCEPT ![r] = Some([Get(@) EXCEPT !.status = status])]
    /\ query' = Stale
    /\ UNCHANGED <<executions, materialization, extVars>>

\* the event log storage records the evaluation of a planned check: the one
\* change a record goes through
Evaluate(i, status, target) ==
    /\ executions[i].status = "PLANNED"
    /\ executions' = [executions EXCEPT
          ![i].status = status,
          ![i].evaluation_event = Some([target_materialization_data |-> target])]
    /\ query' = Stale
    /\ UNCHANGED <<runs, materialization, extVars>>

\* the stores before any run ends and any check is evaluated: the runs the
\* storage has are under way, launched one after the other
InitReads ==
    /\ InitChecks
    /\ \A r \in RunIds :
          ~IsNone(runs[r]) =>
              /\ Get(runs[r]).status = "STARTED"
              /\ Get(runs[r]).create_timestamp = IF r = "run_a" THEN 1 ELSE MaxTimestamp
    /\ \A i \in DOMAIN executions : executions[i].status \in {"PLANNED", "UNKNOWN"}

NextReads ==
    \/ \E i \in DOMAIN executions : GetStatus(i)
    \/ \E i \in DOMAIN executions : \E s \in StatusesOf(executions[i]) : TargetsLatest(i, s)
    \/ FetchLatest
    \/ \E limit \in 0..MaxLimit, cursor \in {None} \cup {Some(c) : c \in CursorStrings} :
          FetchExecutions(limit, cursor)
    \/ \E r \in RunIds, status \in {"SUCCESS", "FAILURE", "CANCELED"} : FinishRun(r, status)
    \/ \E i \in DOMAIN executions, status \in {"SUCCEEDED", "FAILED"},
          target \in {None} \cup {Some(id) : id \in StorageIds} : Evaluate(i, status, target)

SpecReads == InitReads /\ [][NextReads]_vars

(***************************************************************************)
(* What a call did, read off its events.                                   *)
(***************************************************************************)
Resources == {"tempdir", "context_injector", "message_reader"}

Count(c, kind, what) ==
    Cardinality({i \in DOMAIN calls[c].events : calls[c].events[i] = <<kind, what>>})

\* the resources of the events of one kind, in the order of the events
Whats(c, kind) ==
    LET IsKind(e) == e[1] = kind
        es == SelectSeq(calls[c].events, IsKind)
    IN [i \in DOMAIN es |-> es[i][2]]

Reverse(s) == [i \in DOMAIN s |-> s[Len(s) + 1 - i]]

IsPrefix(s, t) == Len(s) <= Len(t) /\ s = SubSeq(t, 1, Len(s))

Left(c) == calls[c].pc \in {"returned", "raised"}

Raising(c, type) == ~IsNone(calls[c].exc) /\ Get(calls[c].exc).type = type

\* C1: every resource a call acquired (working area, context injector, message
\* reader) is acquired once, is at no time released more often than acquired,
\* and has been released exactly once when the call has returned or raised,
\* whichever way the call ends.
ReleasedExactlyOnce ==
    \A c \in Calls : \A r \in Resources :
        /\ Count(c, "acquire", r) <= 1
        /\ Count(c, "release", r) <= Count(c, "acquire", r)
        /\ Left(c) => Count(c, "release", r) = Count(c, "acquire", r)

ReleasedExactlyOnceWitness ==
    \E c \in Calls :
        /\ calls[c].pc = "raised"
        /\ Raising(c, "DagsterExternalExecutionError")
        /\ \A r \in Resources : Count(c, "acquire", r) = 1 /\ Count(c, "release", r) = 1

\* C2: when entering the context injector or the message reader raises, the
\* call spawns no child, releases what it had acquired in the reverse of the
\* order of acquisition, and has released all of it when the exception reaches
\* the caller.
SetupFailureUnwinds ==
    \A c \in Calls :
        Raising(c, "SetupError") =>
            /\ IsNone(calls[c].process)
            /\ Count(c, "spawn", "process") = 0
            /\ IsPrefix(Whats(c, "release"), Reverse(Whats(c, "acquire")))
            /\ calls[c].pc = "raised" =>
                  Whats(c, "release") = Reverse(Whats(c, "acquire"))

SetupFailureUnwindsWitness ==
    \E c \in Calls :
        /\ calls[c].pc = "raised"
        /\ Raising(c, "SetupError")
        /\ Whats(c, "acquire") = <<"tempdir", "context_injector">>
        /\ Whats(c, "release") = <<"context_injector", "tempdir">>

\* C3: a call returns normally exactly when its child exited with code 0; when
\* the child exited with another code, the caller gets one
\* DagsterExternalExecutionError with that code, after everything acquired
\* has been released.
ExitCodeDecidesOutcome ==
    \A c \in Calls :
        Left(c) =>
            /\ calls[c].pc = "returned" <=> calls[c].returncode = Some(0)
            /\ \A code \in ExitCodes \ {0} :
                  calls[c].returncode = Some(code) =>
                      /\ calls[c].pc = "raised"
                      /\ calls[c].exc = Some([type |-> "DagsterExternalExecutionError",
                                              returncode |-> code])
                      /\ calls[c].stack = <<>>
                      /\ \A r \in Resources :
                            Count(c, "release", r) = Count(c, "acquire", r)

ExitCodeDecidesOutcomeWitness ==
    \E c \in Calls :
        /\ calls[c].pc = "raised"
        /\ calls[c].returncode = Some(MaxExitCode)
        /\ Get(calls[c].exc).returncode = MaxExitCode
        /\ Count(c, "release", "tempdir") = 1

\* the layers of the environment of the child of call c, lowest precedence first
EnvLayers(c) == <<baseEnv, OrEmpty(calls[c].env), client.env, calls[c].io_env>>

\* C4: the child sees, for every variable name, the value of the highest layer
\* that defines it, in the order base env < env parameter of run < env of the
\* client < variables of the transport; a name no layer defines is not set.
EnvPrecedence ==
    \A c \in Calls :
        ~IsNone(calls[c].process) =>
            \A n \in EnvNames :
                LET layers == EnvLayers(c)
                    defining == {i \in DOMAIN layers : n \in DOMAIN layers[i]}
                    env == Get(calls[c].process).env
                IN IF defining = {}
                   THEN n \notin DOMAIN env
                   ELSE /\ n \in DOMAIN env
                        /\ \E i \in defining :
                              /\ \A j \in defining : j <= i
                              /\ env[n] = layers[i][n]

EnvPrecedenceWitness ==
    \E c \in Calls :
        /\ ~IsNone(calls[c].process)
        /\ \A i \in 1..4 : ContextVar \in DOMAIN EnvLayers(c)[i]
        /\ Get(calls[c].process).env[ContextVar][1] = "transport"
        /\ UserVar \in DOMAIN EnvLayers(c)[2] /\ UserVar \in DOMAIN EnvLayers(c)[3]
        /\ Get(calls[c].process).env[UserVar][1] = "client"

(***************************************************************************)
(* The asset check queries, read off the last call and the stores.         *)
(***************************************************************************)
\* the record the last call was made on
Asked == executions[query.index]

\* the storage id the evaluation of a record names as its target, if any
TargetOf(execution) == Get(execution.evaluation_event).target_materialization_data

\* C5: for a record stored PLANNED whose run is in the run storage, the status
\* resolved is IN_PROGRESS when the run is not finished, EXECUTION_FAILED when
\* it finished with FAILURE, and SKIPPED when it finished with another status.
PlannedFollowsRun ==
    (/\ query.op = "get_status"
     /\ Asked.status = "PLANNED"
     /\ ~IsNone(runs[Asked.run_id])) =>
        LET status == Get(runs[Asked.run_id]).status
        IN /\ query.raised = ""
           /\ status = "FAILURE" => query.value = <<"EXECUTION_FAILED">>
           /\ status \in {"SUCCESS", "CANCELED"} => query.value = <<"SKIPPED">>
           /\ status \notin {"SUCCESS", "CANCELED", "FAILURE"} =>
                 query.value = <<"IN_PROGRESS">>

PlannedFollowsRunWitness ==
    /\ query.op = "get_status"
    /\ Asked.status = "PLANNED"
    /\ ~IsNone(runs[Asked.run_id])
    /\ Get(runs[Asked.run_id]).status = "CANCELED"
    /\ query.value = <<"SKIPPED">>

\* C6: for a record stored SUCCEEDED or FAILED the status resolved is the
\* stored one, whatever the run storage holds for its run (nothing included),
\* and the run storage is not read.
StoredStatusKept ==
    (/\ query.op = "get_status"
     /\ Asked.status \in {"SUCCEEDED", "FAILED"}) =>
        /\ query.raised = ""
        /\ query.value = <<Asked.status>>
        /\ query.reads = <<>>

StoredStatusKeptWitness ==
    /\ query.op = "get_status"
    /\ Asked.status = "FAILED"
    /\ IsNone(runs[Asked.run_id])
    /\ query.value = <<"FAILED">>

\* C7: with a status SUCCEEDED or FAILED and a latest materialization, the
\* execution is surfaced exactly when its evaluation names a target storage id
\* and that id is the storage id of the latest materialization.
EvaluatedSurfacedOnExactTarget ==
    (/\ query.op = "targets_latest"
     /\ query.resolved_status \in {"SUCCEEDED", "FAILED"}
     /\ ~IsNone(materialization)) =>
        /\ query.raised = ""
        /\ query.value[1] <=>
              /\ ~IsNone(TargetOf(Asked))
              /\ Get(TargetOf(Asked)) = Get(materialization).storage_id

EvaluatedSurfacedOnExactTargetWitness ==
    /\ query.op = "targets_latest"
    /\ query.resolved_status = "SUCCEEDED"
    /\ ~IsNone(materialization)
    /\ ~IsNone(TargetOf(Asked))
    /\ Get(TargetOf(Asked)) > Get(materialization).storage_id
    /\ query.value = <<FALSE>>

\* C8: with a status EXECUTION_FAILED or SKIPPED, an execution of the run that
\* made the latest materialization is surfaced, whatever the run storage holds.
SameRunSurfaced ==
    (/\ query.op = "targets_latest"
     /\ query.resolved_status \in {"EXECUTION_FAILED", "SKIPPED"}
     /\ ~IsNone(materialization)
     /\ Get(materialization).run_id = Asked.run_id) =>
        /\ query.raised = ""
        /\ query.value = <<TRUE>>

SameRunSurfacedWitness ==
    /\ query.op = "targets_latest"
    /\ query.resolved_status = "SKIPPED"
    /\ ~IsNone(materialization)
    /\ Get(materialization).run_id = Asked.run_id
    /\ IsNone(runs[Asked.run_id])
    /\ query.value = <<TRUE>>

\* C9: with a status EXECUTION_FAILED or SKIPPED and a latest materialization
\* of another run, the execution is surfaced exactly when both runs are in the
\* run storage and the run of the execution was created strictly later.
OtherRunSurfacedWhenLater ==
    (/\ query.op = "targets_latest"
     /\ query.resolved_status \in {"EXECUTION_FAILED", "SKIPPED"}
     /\ ~IsNone(materialization)
     /\ Get(materialization).run_id # Asked.run_id) =>
        LET mine == runs[Asked.run_id]
            other == runs[Get(materialization).run_id]
        IN /\ query.raised = ""
           /\ query.value[1] <=>
                 /\ ~IsNone(mine)
                 /\ ~IsNone(other)
                 /\ Get(other).create_timestamp < Get(mine).create_timestamp

OtherRunSurfacedWhenLaterWitness ==
    /\ query.op = "targets_latest"
    /\ query.resolved_status = "EXECUTION_FAILED"
    /\ ~IsNone(materialization)
    /\ Get(materialization).run_id # Asked.run_id
    /\ ~IsNone(runs[Asked.run_id])
    /\ ~IsNone(runs[Get(materialization).run_id])
    /\ Get(runs[Get(materialization).run_id]).create_timestamp
         = Get(runs[Asked.run_id]).create_timestamp
    /\ query.value = <<FALSE>>

\* the reads of the last call that found no record
Misses == {i \in DOMAIN query.reads : ~query.reads[i].found}

\* C10 as claimed: whenever fetch_execution_for_latest_materialization looks
\* up a run or a materialization that is not in the stores, it returns no
\* execution and raises nothing.
LookupMissNotSurfaced ==
    (query.op = "fetch_latest" /\ Misses # {}) =>
        /\ query.raised = ""
        /\ query.value = <<None>>

\* C10 as the code has it: in fetch_execution_for_latest_materialization a run
\* record missing in the comparison of the two runs gives no execution and no
\* error; a missing materialization gives the execution; a missing run of a
\* PLANNED record makes the call fail with CheckError.
LookupMissOutcome ==
    query.op = "fetch_latest" =>
        \A i \in Misses :
            /\ query.reads[i].call = "get_run_record_by_id" =>
                  query.raised = "" /\ query.value = <<None>>
            /\ query.reads[i].call = "get_asset_records" =>
                  /\ query.raised = ""
                  /\ ~IsNone(query.value[1])
                  /\ Get(query.value[1]).execution = executions[1]
            /\ query.reads[i].call = "get_run_by_id" =>
                  query.raised = "CheckError"

LookupMissOutcomeWitness ==
    /\ query.op = "fetch_latest"
    /\ \E i \in Misses : query.reads[i].call = "get_run_record_by_id"
    /\ query.raised = ""
    /\ query.value = <<None>>

\* C11: an execution whose resolved status is IN_PROGRESS is surfaced whatever
\* the materialization and the runs in the stores are, and no store is read.
InProgressSurfaced ==
    (query.op = "targets_latest" /\ query.resolved_status = "IN_PROGRESS") =>
        /\ query.raised = ""
        /\ query.value = <<TRUE>>
        /\ query.reads = <<>>

InProgressSurfacedWitness ==
    /\ query.op = "targets_latest"
    /\ query.resolved_status = "IN_PROGRESS"
    /\ ~IsNone(materialization)
    /\ Get(materialization).run_id # Asked.run_id
    /\ ~IsNone(runs[Asked.run_id])
    /\ ~IsNone(runs[Get(materialization).run_id])
    /\ Get(runs[Get(materialization).run_id]).create_timestamp
         > Get(runs[Asked.run_id]).create_timestamp
    /\ query.value = <<TRUE>>

\* C12: when the asset has no materialization, the execution is surfaced for
\* each of the five resolved statuses, whatever its evaluation is, and no run
\* record is read: the one read made, if any, is that of the asset record.
NoMaterializationSurfaced ==
    (query.op = "targets_latest" /\ IsNone(materialization)) =>
        /\ query.raised = ""
        /\ query.value = <<TRUE>>
        /\ \A i \in DOMAIN query.reads : query.reads[i].call = "get_asset_records"

NoMaterializationSurfacedWitness ==
    /\ query.op = "targets_latest"
    /\ IsNone(materialization)
    /\ query.resolved_status = "FAILED"
    /\ IsNone(TargetOf(Asked))
    /\ query.value = <<TRUE>>

\* C13: for a stored status that is none of SUCCEEDED, FAILED and PLANNED the
\* resolution fails (check.failed raises CheckError) and returns no status,
\* whatever the run storage holds for the run of the record.
UnknownStatusFails ==
    (/\ query.op = "get_status"
     /\ Asked.status \notin {"SUCCEEDED", "FAILED", "PLANNED"}) =>
        /\ query.raised = "CheckError"
        /\ query.message = "Unexpected status"
        /\ query.value = <<>>

UnknownStatusFailsWitness ==
    /\ query.op = "get_status"
    /\ Asked.status = "UNKNOWN"
    /\ ~IsNone(runs[Asked.run_id])
    /\ Get(runs[Asked.run_id]).status = "FAILURE"
    /\ query.raised = "CheckError"

ResolvedStatuses == {"IN_PROGRESS", "SUCCEEDED", "FAILED", "EXECUTION_FAILED", "SKIPPED"}

\* C19: fetch_execution_for_latest_materialization never fails in the last
\* arm of _execution_targets_latest_materialization, and the status it
\* returns with an execution is one of the five resolved statuses.
UnexpectedCheckStatusUnreachable ==
    query.op = "fetch_latest" =>
        /\ query.message # "Unexpected check status"
        /\ (query.raised = "" /\ ~IsNone(query.value[1])) =>
               Get(query.value[1]).resolved_status \in ResolvedStatuses

UnexpectedCheckStatusUnreachableWitness ==
    /\ query.op = "fetch_latest"
    /\ query.raised = ""
    /\ executions # <<>>
    /\ executions[1].status = "PLANNED"
    /\ \E i \in DOMAIN query.reads : query.reads[i].call = "get_run_record_by_id"
    /\ ~IsNone(query.value[1])
    /\ Get(query.value[1]).resolved_status = "SKIPPED"

\* does _execution_targets_latest_materialization surface the record with the
\* status resolved for it
Surfaced(execution) ==
    LET status == _get_asset_check_execution_status(execution)
    IN /\ status.raised = ""
       /\ LET targets == _execution_targets_latest_materialization(execution,
                                                                   status.value[1])
          IN targets.raised = "" /\ targets.value[1]

\* C18: fetch_execution_for_latest_materialization looks at the most recent
\* execution only: it returns that execution with its resolved status when
\* it is surfaced, and nothing when there is no execution or when the most
\* recent one is not surfaced, whatever the older executions are.
OnlyHeadConsidered ==
    (query.op = "fetch_latest" /\ query.raised = "") =>
        IF executions = <<>> THEN query.value = <<None>>
        ELSE IF Surfaced(executions[1])
        THEN query.value =
                 <<Some([execution |-> executions[1],
                         resolved_status |->
                             _get_asset_check_execution_status(executions[1]).value[1]])>>
        ELSE query.value = <<None>>

OnlyHeadConsideredWitness ==
    /\ query.op = "fetch_latest"
    /\ query.raised = ""
    /\ Len(executions) = 2
    /\ ~Surfaced(executions[1])
    /\ Surfaced(executions[2])
    /\ query.value = <<None>>

\* the place of an event in the order of one call
Rank(e) ==
    IF e = <<"acquire", "tempdir">> THEN 1
    ELSE IF e = <<"acquire", "context_injector">> THEN 2
    ELSE IF e = <<"acquire", "message_reader">> THEN 3
    ELSE IF e[1] = "spawn" THEN 4
    ELSE IF e[1] = "exit" THEN 5
    ELSE IF e = <<"release", "message_reader">> THEN 6
    ELSE IF e = <<"release", "context_injector">> THEN 7
    ELSE 8

Happened(c, kind) == \E i \in DOMAIN calls[c].events : calls[c].events[i][1] = kind

\* C17: the events of one call come in the order working area acquired,
\* context injector acquired, message reader acquired, child spawned, child
\* exited, message reader released, context injector released, working area
\* released; the working area is acquired exactly when a default transport
\* needs it, the child is spawned after both channels are acquired, and
\* nothing is released between the spawn and the exit of the child.
EventOrder ==
    \A c \in Calls :
        LET es == calls[c].events
        IN /\ \A i, j \in DOMAIN es : i < j => Rank(es[i]) < Rank(es[j])
           /\ Happened(c, "spawn") =>
                  /\ Count(c, "acquire", "context_injector") = 1
                  /\ Count(c, "acquire", "message_reader") = 1
                  /\ Count(c, "acquire", "tempdir") =
                        IF "file" \in {calls[c].context_injector, calls[c].message_reader}
                        THEN 1 ELSE 0
           /\ (Happened(c, "spawn") /\ Happened(c, "release")) => Happened(c, "exit")

EventOrderWitness ==
    \E c \in Calls :
        /\ calls[c].pc = "returned"
        /\ calls[c].context_injector = "custom"
        /\ calls[c].message_reader = "file"
        /\ Len(calls[c].events) = 8

\* the call holds a working area: acquired and not yet released
Live(c) == \E i \in DOMAIN calls[c].stack : calls[c].stack[i] = "tempdir"

\* C14: of the calls running at the same time with the default transports, no
\* two that hold a working area hold the same one, and while the child of a
\* call runs the directory of its context and message files exists, whatever
\* the other calls have released.
OwnWorkingArea ==
    /\ \A c, d \in Calls : (c # d /\ Live(c) /\ Live(d)) => calls[c].tempdir # calls[d].tempdir
    /\ \A c \in Calls :
          calls[c].pc = "wait" =>
              /\ Live(c)
              /\ calls[c].tempdir \in dirs
              /\ calls[c].context_injector_params =
                     <<calls[c].tempdir, _CONTEXT_INJECTOR_FILENAME>>
              /\ calls[c].message_reader_params =
                     <<calls[c].tempdir, _MESSAGE_READER_FILENAME>>

OwnWorkingAreaWitness ==
    \E c, d \in Calls :
        /\ c # d
        /\ calls[c].pc = "wait"
        /\ Live(d)
        /\ calls[d].pc = "unwind"
        /\ calls[d].stack = <<"tempdir">>
        /\ Count(d, "exit", "process") = 1

\* the status a PLANNED record has by the run storage as it is now
ByRunNow(execution) ==
    LET run == Get(runs[execution.run_id])
    IN IF run.status = "STARTED" THEN "IN_PROGRESS"
       ELSE IF run.status = "FAILURE" THEN "EXECUTION_FAILED"
       ELSE "SKIPPED"

\* C15: no result of an earlier resolution is kept: as long as the stores are
\* as the call found them, the status resolved for a PLANNED record, alone or
\* in the list of fetch_executions, is the one the run storage gives now, so
\* a read after the run finished does not repeat an earlier IN_PROGRESS.
NoMemo ==
    /\ (/\ query.op = "get_status"
        /\ ~query.stale
        /\ Asked.status = "PLANNED"
        /\ ~IsNone(runs[Asked.run_id])) =>
            /\ query.raised = ""
            /\ query.value = <<ByRunNow(Asked)>>
    /\ (query.op = "fetch_executions" /\ ~query.stale /\ query.raised = "") =>
            \A k \in DOMAIN query.value[1] :
                LET shown == query.value[1][k]
                IN shown.execution.status = "PLANNED" =>
                       shown.resolved_status = ByRunNow(shown.execution)

NoMemoWitness ==
    /\ query.op = "get_status"
    /\ ~query.stale
    /\ query.before = <<"IN_PROGRESS">>
    /\ query.value = <<"EXECUTION_FAILED">>

\* C16: a call of _get_asset_check_execution_status,
\* _execution_targets_latest_materialization, fetch_executions or
\* fetch_execution_for_latest_materialization, whether it returns or raises,
\* leaves the run storage, the execution records and the materialization as
\* they were.
ReadsLeaveStores ==
    [][~query'.stale => UNCHANGED <<runs, executions, materialization>>]_vars

ReadsLeaveStoresWitness ==
    /\ query.op = "fetch_executions"
    /\ ~query.stale
    /\ query.raised = "CheckError"
    /\ Len(query.reads) = 2
    /\ \E r \in RunIds : ~IsNone(runs[r]) /\ is_finished(Get(runs[r]))
    /\ ~IsNone(materialization)

\* C20: with a record evaluated once at most and a finished run that stays as
\* it finished, two reads of one record in a row are monotone: after a status
\* other than IN_PROGRESS comes no IN_PROGRESS, after SUCCEEDED or FAILED
\* comes the same status, and EXECUTION_FAILED and SKIPPED never follow one
\* another.
ResolvedStatusMonotone ==
    (/\ query.op = "get_status"
     /\ query.raised = ""
     /\ query.before # <<>>) =>
        LET earlier == query.before[1]
            later == query.value[1]
        IN /\ earlier # "IN_PROGRESS" => later # "IN_PROGRESS"
           /\ earlier \in {"SUCCEEDED", "FAILED"} => later = earlier
           /\ {earlier, later} # {"EXECUTION_FAILED", "SKIPPED"}

ResolvedStatusMonotoneWitness ==
    /\ query.op = "get_status"
    /\ query.before = <<"SKIPPED">>
    /\ query.value = <<"SUCCEEDED">>

====
